---- MODULE Spec2Model ----
(***************************************************************************)
(* A model of avx512counters.go: the step driver of main, the collector's  *)
(* steps, and the fixture scanner (testFileScanner.init / scan).           *)
(*                                                                         *)
(* Go strings are modelled as sequences of one-character strings, so that  *)
(* strings.Split, strings.TrimSpace, strings.TrimSuffix and the regular    *)
(* expression of testFileScanner.lineRE are computed character by          *)
(* character.                                                              *)
(***************************************************************************)
EXTENDS Integers, Sequences, FiniteSets, TLC

VARIABLES
    fs,            \* the files of testDir: file name -> [kind, data]
    workDir,       \* state of c.workDir on disk: "missing", "dir" or "main"
    pc,            \* index of the step of main's list that runs next
    status,        \* "run", "done", "fatal" (log.Fatalf), "exit2" (flag.Parse), "panic"
    ran,           \* history: the steps that returned, with the error returned
    availableExt,  \* c.availableExt (the set of keys mapped to true)
    extensions,    \* c.extensions
    perfTool,      \* c.perfTool
    iformSpanSize, \* c.iformSpanSize
    loopCount,     \* c.loopCount
    perfRounds,    \* c.perfRounds
    stats,         \* c.stats
    ci,            \* position of collectCounters' range loop in c.extensions
    cur,           \* c.current: [extension, scanner]
    logs,          \* what log.Printf / log.Fatalf have written
    phase,         \* position of a scanner client: "new", "ready", "initerr", "panic"
    initLines,     \* history: s.lines as init left them
    rets,          \* history: the values returned by the calls of scan
    yielded        \* history: s.line after each call of scan that returned true

vars == <<fs, workDir, pc, status, ran, availableExt, extensions, perfTool,
          iformSpanSize, loopCount, perfRounds, stats, ci, cur, logs,
          phase, initLines, rets, yielded>>

driverVars == <<workDir, pc, status, ran, availableExt, extensions, perfTool,
                iformSpanSize, loopCount, perfRounds, stats, ci, logs>>

scanHistory == <<phase, initLines, rets, yielded>>

----------------------------------------------------------------------------
(* Bounds of the model.                                                    *)

\* most lines a fixture file of the scanner specification is made of
MaxLines == 4

\* calls of scan made after the one that consumed the last possible line
ExtraScans == 3

\* most comma-separated tokens of the -extensions flag value
MaxExts == 2

----------------------------------------------------------------------------
(* Go strings and the string functions the program calls.                  *)

TAB == "\t"
NL == "\n"

nil == "nil"

HexDigits == {"0", "1", "2", "3", "4", "5", "6", "7", "8", "9",
              "a", "b", "c", "d", "e", "f"}

\* unicode.IsSpace restricted to the characters of the model
WhiteSpace == {" ", TAB, NL, "\r"}

IndexOf(s, c) ==
    IF \E i \in 1..Len(s) : s[i] = c
    THEN CHOOSE i \in 1..Len(s) : s[i] = c /\ \A j \in 1..(i - 1) : s[j] # c
    ELSE 0

RECURSIVE Split(_, _)
\* strings.Split(s, sep) for a one-character separator
Split(s, sep) ==
    LET i == IndexOf(s, sep) IN
    IF i = 0 THEN <<s>>
    ELSE <<SubSeq(s, 1, i - 1)>> \o Split(SubSeq(s, i + 1, Len(s)), sep)

RECURSIVE Join(_, _)
\* strings.Join: how a file or a flag value of the model is written down
Join(ss, sep) ==
    IF Len(ss) = 0 THEN <<>>
    ELSE IF Len(ss) = 1 THEN ss[1]
    ELSE ss[1] \o <<sep>> \o Join(Tail(ss), sep)

RECURSIVE TrimLeft(_)
TrimLeft(s) ==
    IF Len(s) > 0 /\ s[1] \in WhiteSpace THEN TrimLeft(Tail(s)) ELSE s

RECURSIVE TrimRight(_)
TrimRight(s) ==
    IF Len(s) > 0 /\ s[Len(s)] \in WhiteSpace
    THEN TrimRight(SubSeq(s, 1, Len(s) - 1)) ELSE s

TrimSpace(s) == TrimRight(TrimLeft(s))

TrimSuffix(s, suffix) ==
    IF Len(s) >= Len(suffix)
       /\ SubSeq(s, Len(s) - Len(suffix) + 1, Len(s)) = suffix
    THEN SubSeq(s, 1, Len(s) - Len(suffix))
    ELSE s

DotS == <<".", "s">>

----------------------------------------------------------------------------
(* The file system.                                                        *)

Absent == [kind |-> "absent", data |-> <<>>]
Unreadable == [kind |-> "unreadable", data |-> <<>>]
File(data) == [kind |-> "file", data |-> data]

Entry(fsys, name) == IF name \in DOMAIN fsys THEN fsys[name] ELSE Absent

\* ioutil.ReadFile
ReadFile(fsys, name) ==
    LET e == Entry(fsys, name) IN
    IF e.kind = "file" THEN [err |-> nil, data |-> e.data]
    ELSE [err |-> "read error", data |-> <<>>]

\* the names ioutil.ReadDir lists
ReadDirNames(fsys) == {n \in DOMAIN fsys : fsys[n].kind # "absent"}

----------------------------------------------------------------------------
(* testFileScanner                                                         *)

NoLine == [op |-> <<>>, args |-> <<>>, text |-> <<>>]

NoErr == [kind |-> nil, file |-> <<>>, line |-> <<>>]

NewScanner(filename) ==
    [filename |-> filename, lines |-> <<>>, line |-> NoLine, err |-> NoErr]

RetLine == <<TAB, "R", "E", "T">>

\* " // " followed by a hex digit starts at position k of line l
SepAt(l, k) ==
    /\ k >= 1
    /\ k + 4 <= Len(l)
    /\ l[k] = " " /\ l[k + 1] = "/" /\ l[k + 2] = "/" /\ l[k + 3] = " "
    /\ l[k + 4] \in HexDigits

\* the first group can end before the space at j, the match starting at i
OpEndsAt(l, i, j) ==
    /\ j > i
    /\ j <= Len(l)
    /\ l[j] = " "
    /\ \E k \in (j + 1)..Len(l) : SepAt(l, k)

MatchesFrom(l, i) ==
    /\ l[i] = TAB
    /\ \E j \in (i + 1)..Len(l) : OpEndsAt(l, i, j)

Least(S) == CHOOSE x \in S : \A y \in S : x <= y

RECURSIVE HexRunEnd(_, _)
\* the last position of the run of hex digits that starts at position p
HexRunEnd(l, p) ==
    IF p + 1 <= Len(l) /\ l[p + 1] \in HexDigits THEN HexRunEnd(l, p + 1) ELSE p

\* the position the match of lineRE starts at, 0 when there is none
MatchStart(l) ==
    LET S == {i \in 1..Len(l) : MatchesFrom(l, i)} IN
    IF S = {} THEN 0 ELSE Least(S)

\* s.lineRE.FindStringSubmatch(l) for `\t(.*?) (.*?) // [0-9a-f]+`:
\* <<>> for nil, else <<m[0], m[1], m[2]>> of the leftmost match, with both
\* lazy groups as short as they can be and the hex run as long as it can be
FindStringSubmatch(l) ==
    LET i == MatchStart(l) IN
    IF i = 0 THEN <<>>
    ELSE LET j == Least({x \in (i + 1)..Len(l) : OpEndsAt(l, i, x)})
             k == Least({x \in (j + 1)..Len(l) : SepAt(l, x)})
             e == HexRunEnd(l, k + 4)
         IN <<SubSeq(l, i, e), SubSeq(l, i + 1, j - 1), SubSeq(l, j + 1, k - 1)>>

RECURSIVE SkipHeader(_)
\* the loop of init; s.lines[0] of an empty slice is an index-out-of-range panic
SkipHeader(ls) ==
    IF Len(ls) = 0 THEN [panic |-> TRUE, lines |-> <<>>]
    ELSE IF Len(ls[1]) = 0 \/ ls[1][1] # TAB THEN SkipHeader(Tail(ls))
    ELSE [panic |-> FALSE, lines |-> ls]

\* testFileScanner.init: [outcome, s] with outcome "ok" (nil), "err" or "panic"
ScannerInit(fsys, s) ==
    LET rd == ReadFile(fsys, s.filename) IN
    IF rd.err # nil THEN [outcome |-> "err", s |-> s]
    ELSE LET sk == SkipHeader(Split(rd.data, NL)) IN
         [outcome |-> IF sk.panic THEN "panic" ELSE "ok",
          s |-> [s EXCEPT !.lines = sk.lines]]

\* scan at the sentinel: nothing changes
ScanConsumeSentinel(s) == [s |-> [s EXCEPT !.lines = Tail(@)], ret |-> FALSE]
ScanSentinel(s) == [s |-> s, ret |-> FALSE]

\* s.lines = s.lines[1:]
ConsumeNothing(lines) == lines
Consume(lines) == Tail(lines)

\* the args loop of scan
DecodeArgs(m2) ==
    LET parts == Split(m2, ",") IN [x \in 1..Len(parts) |-> TrimSpace(parts[x])]

\* the testLine scan builds from a match
Decode(m) == [op |-> m[2], args |-> DecodeArgs(m[3]), text |-> m[1]]

\* testFileScanner.scan: [s, ret]
Scan(s) ==
    IF s.err.kind # nil THEN [s |-> s, ret |-> FALSE]
    ELSE IF Len(s.lines) = 0
    THEN [s |-> [s EXCEPT !.err = [kind |-> "eof", file |-> s.filename, line |-> <<>>]],
          ret |-> FALSE]
    ELSE IF s.lines[1] = RetLine THEN ScanSentinel(s)
    ELSE LET m == FindStringSubmatch(s.lines[1]) IN
         IF m = <<>>
         THEN [s |-> [s EXCEPT !.err = [kind |-> "parse", file |-> s.filename,
                                        line |-> s.lines[1]]],
               ret |-> FALSE]
         ELSE [s |-> [s EXCEPT !.lines = Consume(s.lines), !.line = Decode(m)],
               ret |-> TRUE]

----------------------------------------------------------------------------
(* The scanner driven by a client: init once, then scan repeatedly.        *)

LBlank == <<>>
LHeader == <<"/", "/", " ", "h">>
LIns1 == <<TAB, "A", " ", "B", ",", " ", "C", " ", "/", "/", " ", "0", "a">>
LIns2 == <<TAB, "D", " ", "E", " ", "/", "/", " ", "1">>
LBad == <<TAB, "X">>
LEmbed == <<"x", TAB, "A", " ", "B", " ", "/", "/", " ", "0">>

\* the lines the fixture files of the scanner specification are made of
LinePool == {LBlank, LHeader, LIns1, LIns2, RetLine, LBad, LEmbed}

SeqsUpTo(S, n) == UNION {[1..m -> S] : m \in 1..n}

\* the contents of the file: every text of 1..MaxLines lines of the pool
\* joined by newlines (a last empty line is a trailing newline)
ScanFileData == {Join(ls, NL) : ls \in SeqsUpTo(LinePool, MaxLines)}

ScanFileName == <<"x", ".", "s">>

ScanFileSystems ==
    {[n \in {ScanFileName} |-> e] : e \in {File(d) : d \in ScanFileData} \cup {Unreadable}}

FreshCurrent == [extension |-> <<>>, scanner |-> NewScanner(<<>>)]

InitScan ==
    /\ fs \in ScanFileSystems
    /\ workDir = "missing"
    /\ pc = 0
    /\ status = "scanner"
    /\ ran = <<>>
    /\ availableExt = {}
    /\ extensions = <<>>
    /\ perfTool = ""
    /\ iformSpanSize = 0
    /\ loopCount = 0
    /\ perfRounds = 0
    /\ stats = <<>>
    /\ ci = 1
    /\ cur = [extension |-> <<"x">>, scanner |-> NewScanner(ScanFileName)]
    /\ logs = <<>>
    /\ phase = "new"
    /\ initLines = <<>>
    /\ rets = <<>>
    /\ yielded = <<>>

\* a call of c.current.scanner.init()
ScanInit ==
    /\ phase = "new"
    /\ LET r == ScannerInit(fs, cur.scanner) IN
       /\ cur' = [cur EXCEPT !.scanner = r.s]
       /\ initLines' = r.s.lines
       /\ phase' = IF r.outcome = "ok" THEN "ready"
                   ELSE IF r.outcome = "err" THEN "initerr" ELSE "panic"
    /\ UNCHANGED <<fs, rets, yielded>>
    /\ UNCHANGED driverVars

\* a call of c.current.scanner.scan()
ScanCall ==
    /\ phase = "ready"
    /\ Len(rets) < MaxLines + ExtraScans
    /\ LET r == Scan(cur.scanner) IN
       /\ cur' = [cur EXCEPT !.scanner = r.s]
       /\ rets' = Append(rets, r.ret)
       /\ yielded' = IF r.ret THEN Append(yielded, r.s.line) ELSE yielded
    /\ UNCHANGED <<fs, phase, initLines>>
    /\ UNCHANGED driverVars

NextScan == ScanInit \/ ScanCall

SpecScan == InitScan /\ [][NextScan]_vars

----------------------------------------------------------------------------
(* main and the collector's steps.                                         *)

StepNames == <<"init collector", "locate test dir", "read extensions",
               "parse command-line args", "validate command-line args",
               "prepare work dir", "visit work dir", "collect counters">>

\* the body of main's loop once step i has returned err, were the error
\* only logged
RunStepLogOnly(i, err) ==
    /\ ran' = Append(ran, [name |-> StepNames[i], err |-> err])
    /\ logs' = IF err # nil THEN Append(logs, [kind |-> "fatal", what |-> StepNames[i]])
               ELSE logs
    /\ pc' = i + 1
    /\ status' = IF i = Len(StepNames) THEN "done" ELSE status

\* the body of main's loop once step i has returned err: log.Fatalf ends
\* the process, otherwise the next step of the list runs
RunStep(i, err) ==
    /\ ran' = Append(ran, [name |-> StepNames[i], err |-> err])
    /\ IF err # nil
       THEN /\ logs' = Append(logs, [kind |-> "fatal", what |-> StepNames[i]])
            /\ status' = "fatal"
            /\ pc' = pc
       ELSE /\ logs' = logs
            /\ pc' = i + 1
            /\ status' = IF i = Len(StepNames) THEN "done" ELSE status

AtStep(i) == pc = i /\ status = "run"

\* collector.init
c_init ==
    /\ AtStep(1)
    /\ availableExt' = {}
    /\ RunStep(1, nil)
    /\ UNCHANGED <<fs, workDir, extensions, perfTool, iformSpanSize, loopCount,
                   perfRounds, stats, ci, cur>>
    /\ UNCHANGED scanHistory

\* collector.locateTestDir; whether GOROOT holds the test suite is an input
locateTestDir ==
    /\ AtStep(2)
    /\ \E exists \in BOOLEAN :
          RunStep(2, IF exists THEN nil ELSE "can't locate AVX-512 testdata")
    /\ UNCHANGED <<fs, workDir, availableExt, extensions, perfTool, iformSpanSize,
                   loopCount, perfRounds, stats, ci, cur>>
    /\ UNCHANGED scanHistory

\* collector.readExtensions; ioutil.ReadDir can fail
readExtensions ==
    /\ AtStep(3)
    /\ \E readDirOk \in BOOLEAN :
          IF readDirOk
          THEN /\ availableExt' =
                     availableExt \cup {TrimSuffix(n, DotS) : n \in ReadDirNames(fs)}
               /\ RunStep(3, nil)
          ELSE /\ availableExt' = availableExt
               /\ RunStep(3, "ReadDir error")
    /\ UNCHANGED <<fs, workDir, extensions, perfTool, iformSpanSize, loopCount,
                   perfRounds, stats, ci, cur>>
    /\ UNCHANGED scanHistory

\* the tokens the values of the -extensions flag are made of
ExtTokens == {<<"a">>, <<" ", "b">>, <<"r">>, <<>>}

ExtFlagValues == {Join(ts, ",") : ts \in SeqsUpTo(ExtTokens, MaxExts)}

PerfFlagValues == {"", "perf"}

UintFlagValues == {0, 1}

\* the loop of parseFlags over strings.Split(*extensions, ",")
SplitExtensions(value) ==
    LET parts == Split(value, ",") IN [x \in 1..Len(parts) |-> TrimSpace(parts[x])]

\* collector.parseFlags; flag.Parse exits the process with status 2 on a
\* malformed command line, filepath.Abs can fail
parseFlags ==
    /\ AtStep(4)
    /\ \/ /\ status' = "exit2"
          /\ UNCHANGED <<pc, ran, logs, extensions, perfTool, iformSpanSize,
                         loopCount, perfRounds>>
       \/ \E value \in ExtFlagValues, perf \in PerfFlagValues,
             span \in UintFlagValues, loop \in UintFlagValues,
             rounds \in UintFlagValues, absOk \in BOOLEAN :
             /\ perfTool' = perf
             /\ iformSpanSize' = span
             /\ loopCount' = loop
             /\ perfRounds' = rounds
             /\ extensions' = extensions \o SplitExtensions(value)
             /\ RunStep(4, IF absOk THEN nil ELSE "expand -workDir")
    /\ UNCHANGED <<fs, workDir, availableExt, stats, ci, cur>>
    /\ UNCHANGED scanHistory

\* the error collector.validateFlags returns
validateFlagsErr ==
    IF \E x \in 1..Len(extensions) : extensions[x] \notin availableExt
    THEN "unavailable extension"
    ELSE IF Len(extensions) = 0 THEN "expected at least 1 extension name"
    ELSE IF perfTool = "" THEN "argument -perf can't be empty"
    ELSE IF iformSpanSize = 0 THEN "argument -iformSpanSize can't be 0"
    ELSE IF loopCount = 0 THEN "argument -loopCount can't be 0"
    ELSE IF perfRounds = 0 THEN "argument -perfRounds can't be 0"
    ELSE nil

\* collector.validateFlags
validateFlags ==
    /\ AtStep(5)
    /\ RunStep(5, validateFlagsErr)
    /\ UNCHANGED <<fs, workDir, availableExt, extensions, perfTool, iformSpanSize,
                   loopCount, perfRounds, stats, ci, cur>>
    /\ UNCHANGED scanHistory

\* collector.prepareWorkDir; os.Mkdir and ioutil.WriteFile can fail
prepareWorkDir ==
    /\ AtStep(6)
    /\ \E mkdirOk \in BOOLEAN, writeOk \in BOOLEAN :
          IF workDir = "missing" /\ ~mkdirOk
          THEN /\ workDir' = workDir
               /\ RunStep(6, "Mkdir error")
          ELSE IF writeOk
          THEN /\ workDir' = "main"
               /\ RunStep(6, nil)
          ELSE /\ workDir' = "dir"
               /\ RunStep(6, "WriteFile error")
    /\ UNCHANGED <<fs, availableExt, extensions, perfTool, iformSpanSize,
                   loopCount, perfRounds, stats, ci, cur>>
    /\ UNCHANGED scanHistory

\* collector.visitWorkDir; os.Chdir can fail
visitWorkDir ==
    /\ AtStep(7)
    /\ \E chdirOk \in BOOLEAN : RunStep(7, IF chdirOk THEN nil ELSE "Chdir error")
    /\ UNCHANGED <<fs, workDir, availableExt, extensions, perfTool, iformSpanSize,
                   loopCount, perfRounds, stats, ci, cur>>
    /\ UNCHANGED scanHistory

\* an evaluateCurrent that yields one record for the current extension
evaluateCurrentOneRecord(c) ==
    [stats |-> <<[ext |-> c.extension, iform |-> <<"A">>,
                  level0 |-> 0, level1 |-> 0, level2 |-> 0]>>,
     err |-> nil]

\* collector.evaluateCurrent: return nil, nil
evaluateCurrent(c) == [stats |-> <<>>, err |-> nil]

\* one iteration of the range loop of collector.collectCounters
collectCounters_iter ==
    /\ AtStep(8)
    /\ ci <= Len(extensions)
    /\ LET ext == extensions[ci]
           r == ScannerInit(fs, NewScanner(ext \o DotS))
           c == [extension |-> ext, scanner |-> r.s]
           ev == evaluateCurrent(c)
       IN /\ cur' = c
          /\ IF r.outcome = "panic"
             THEN /\ status' = "panic"
                  /\ UNCHANGED <<logs, stats, ci>>
             ELSE IF r.outcome = "err"
             THEN /\ logs' = Append(logs, [kind |-> "skip", what |-> ext])
                  /\ ci' = ci + 1
                  /\ UNCHANGED <<status, stats>>
             ELSE IF ev.err # nil
             THEN /\ logs' = Append(logs, [kind |-> "failed", what |-> ext])
                  /\ ci' = ci + 1
                  /\ UNCHANGED <<status, stats>>
             ELSE /\ stats' = stats \o ev.stats
                  /\ ci' = ci + 1
                  /\ UNCHANGED <<status, logs>>
    /\ UNCHANGED <<fs, workDir, pc, ran, availableExt, extensions, perfTool,
                   iformSpanSize, loopCount, perfRounds>>
    /\ UNCHANGED scanHistory

\* the return nil of collector.collectCounters
collectCounters_return ==
    /\ AtStep(8)
    /\ ci > Len(extensions)
    /\ RunStep(8, nil)
    /\ UNCHANGED <<fs, workDir, availableExt, extensions, perfTool, iformSpanSize,
                   loopCount, perfRounds, stats, ci, cur>>
    /\ UNCHANGED scanHistory

\* fixture files of the test directory
FixtureWell == Join(<<LHeader, LIns1, RetLine, LBlank>>, NL)
FixtureNoRet == Join(<<LIns1, LBlank>>, NL)
FixtureNoTab == Join(<<LHeader, LBlank>>, NL)
FixtureEmpty == <<>>

NameA == <<"a", ".", "s">>
NameB == <<"b", ".", "s">>
NameR == <<"r">>

FixtureEntries ==
    {Absent, Unreadable, File(FixtureWell), File(FixtureNoRet), File(FixtureNoTab),
     File(FixtureEmpty)}

TestDirs ==
    {[n \in {NameA, NameB, NameR} |->
         IF n = NameA THEN ea ELSE IF n = NameB THEN eb ELSE er] :
       ea \in FixtureEntries,
       eb \in {Absent, File(FixtureWell), File(FixtureNoRet)},
       er \in {Absent, Unreadable}}

\* the state main starts in: var c collector
Init ==
    /\ fs \in TestDirs
    /\ workDir \in {"missing", "dir"}
    /\ pc = 1
    /\ status = "run"
    /\ ran = <<>>
    /\ availableExt = {}
    /\ extensions = <<>>
    /\ perfTool = ""
    /\ iformSpanSize = 0
    /\ loopCount = 0
    /\ perfRounds = 0
    /\ stats = <<>>
    /\ ci = 1
    /\ cur = FreshCurrent
    /\ logs = <<>>
    /\ phase = "new"
    /\ initLines = <<>>
    /\ rets = <<>>
    /\ yielded = <<>>

Next ==
    \/ c_init
    \/ locateTestDir
    \/ readExtensions
    \/ parseFlags
    \/ validateFlags
    \/ prepareWorkDir
    \/ visitWorkDir
    \/ collectCounters_iter
    \/ collectCounters_return

Spec == Init /\ [][Next]_vars

----------------------------------------------------------------------------
(* Vocabulary of the properties.                                           *)

Last(s) == s[Len(s)]

IsBlank(l) == TrimSpace(l) = <<>>

NonBlankCount(ls) == Cardinality({k \in 1..Len(ls) : ~IsBlank(ls[k])})

\* the whole line is: tab, opcode, space, operands, " // ", hex digits
WholeLineShape(l) ==
    /\ Len(l) > 0
    /\ l[1] = TAB
    /\ \E j \in 2..Len(l), k \in 3..Len(l) :
          /\ l[j] = " "
          /\ k > j
          /\ SepAt(l, k)
          /\ \A p \in (k + 4)..Len(l) : l[p] \in HexDigits

\* the leading lines of ls that are empty or do not begin with a tab
HeaderLength(ls) ==
    LET T == {k \in 1..Len(ls) : Len(ls[k]) > 0 /\ ls[k][1] = TAB} IN
    IF T = {} THEN Len(ls) ELSE Least(T) - 1

AfterHeader(ls) == SubSeq(ls, HeaderLength(ls) + 1, Len(ls))

\* instruction lines accepted by lineRE, then the sentinel, then blank lines
WellFormed(ls) ==
    \E n \in 0..(Len(ls) - 1) :
       /\ \A k \in 1..n : ls[k] # RetLine /\ FindStringSubmatch(ls[k]) # <<>>
       /\ ls[n + 1] = RetLine
       /\ \A k \in (n + 2)..Len(ls) : IsBlank(ls[k])

\* the same with whole-line instruction lines, at least one of them
WellFormedWithInstruction(ls) ==
    \E n \in 1..(Len(ls) - 1) :
       /\ \A k \in 1..n : ls[k] # RetLine /\ WholeLineShape(ls[k])
       /\ ls[n + 1] = RetLine
       /\ \A k \in (n + 2)..Len(ls) : IsBlank(ls[k])

SawFalse == \E k \in 1..Len(rets) : ~rets[k]

TruesBeforeFirstFalse == Least({k \in 1..Len(rets) : ~rets[k]}) - 1

AllNil(n) == \A i \in 1..n : i <= Len(ran) /\ ran[i].err = nil

----------------------------------------------------------------------------
(* C1: in collectCounters a failure scanning or evaluating one extension   *)
(* is logged and only that extension is skipped; every later extension is  *)
(* still visited and collectCounters returns nil, whatever the fixture     *)
(* files hold, so the run is never aborted once collectCounters has begun. *)
C1_SkipOnlyFailing ==
    /\ cur # FreshCurrent => status \in {"run", "done"}
    /\ status = "done" => ci = Len(extensions) + 1 /\ ran[8].err = nil
    /\ \A k \in 1..(ci - 1) :
          ReadFile(fs, extensions[k] \o DotS).err # nil
             => \E x \in 1..Len(logs) :
                   logs[x] = [kind |-> "skip", what |-> extensions[k]]

(* C2: the step driver runs the eight steps in list order and halts at the *)
(* first step that returns an error: the steps that have returned are a    *)
(* prefix of the list, only the last of them can have failed, a failure    *)
(* ends the run, and a step runs or leaves an effect only if every earlier *)
(* step returned nil.                                                      *)
C2_StepOrder ==
    /\ Len(ran) <= Len(StepNames)
    /\ \A i \in 1..Len(ran) :
          /\ ran[i].name = StepNames[i]
          /\ i < Len(ran) => ran[i].err = nil
    /\ Len(ran) > 0 /\ Last(ran).err # nil => status = "fatal"
    /\ status = "run" => pc = Len(ran) + 1 /\ AllNil(Len(ran))
    /\ extensions # <<>> => AllNil(3)
    /\ workDir = "main" => AllNil(5)
    /\ cur # FreshCurrent => AllNil(7)

C2_Witness ==
    /\ status = "fatal"
    /\ Len(ran) = 6
    /\ Last(ran).err = "WriteFile error"

(* C3: validateFlags returns nil only if at least one extension is         *)
(* requested, every requested extension has a fixture file <extension>.s   *)
(* in the test directory, perfTool is non-empty and the three counts are   *)
(* non-zero; otherwise the run ends before the work directory is written.  *)
C3_ValidateFlags ==
    Len(ran) >= 5 =>
       IF ran[5].err = nil
       THEN /\ Len(extensions) >= 1
            /\ \A x \in 1..Len(extensions) :
                  Entry(fs, extensions[x] \o DotS).kind # "absent"
            /\ perfTool # ""
            /\ iformSpanSize # 0
            /\ loopCount # 0
            /\ perfRounds # 0
       ELSE status = "fatal" /\ workDir # "main" /\ cur = FreshCurrent

(* C4: for a fixture whose lines after the header skip hold no "\tRET"     *)
(* line, the calls of scan end with false and s.err the unexpected-EOF     *)
(* error, also when the text ends with a newline after the last            *)
(* instruction line. Stated for the fixtures the claim singles out: whole  *)
(* instruction lines, with or without empty lines among them.              *)
C4_MissingRetIsEOF ==
    (/\ phase = "ready"
     /\ \A k \in 1..Len(initLines) :
           initLines[k] # RetLine /\ (IsBlank(initLines[k]) \/ WholeLineShape(initLines[k]))
     /\ SawFalse)
       => /\ cur.scanner.err.kind = "eof"
          /\ cur.scanner.err.file = cur.scanner.filename

(* C5: init returns nil for every readable file, having discarded exactly  *)
(* the leading lines that are empty or do not begin with a tab, and        *)
(* returns an error, doing nothing else, exactly when the file cannot be   *)
(* read; it returns normally for every file content.                       *)
C5_InitReturns ==
    phase # "new" =>
       LET rd == ReadFile(fs, cur.scanner.filename) IN
       IF rd.err # nil
       THEN phase = "initerr" /\ cur.scanner = NewScanner(ScanFileName)
       ELSE /\ phase = "ready"
            /\ initLines = AfterHeader(Split(rd.data, NL))
            /\ initLines # <<>> => initLines[1][1] = TAB

(* C6: for a well-formed fixture the records are yielded in source-line    *)
(* order, one per consumed line, and when scan first returns false the     *)
(* number of true results plus one equals the number of non-blank lines    *)
(* left by init, with s.err nil.                                           *)
C6_WellFormedCount ==
    (phase = "ready" /\ WellFormed(initLines)) =>
       /\ Len(yielded) < Len(initLines)
       /\ \A k \in 1..Len(yielded) :
             yielded[k] = Decode(FindStringSubmatch(initLines[k]))
       /\ cur.scanner.lines = SubSeq(initLines, Len(yielded) + 1, Len(initLines))
       /\ SawFalse =>
             /\ TruesBeforeFirstFalse + 1 = NonBlankCount(initLines)
             /\ Len(yielded) = TruesBeforeFirstFalse
             /\ cur.scanner.err = NoErr

C6_Witness ==
    /\ phase = "ready"
    /\ initLines = <<LIns1, LIns2, RetLine, LBlank>>
    /\ Len(yielded) = 2
    /\ SawFalse

(* C7: scan accepts a line that is not the sentinel only if the whole line *)
(* has the fixture shape; any other line gives false with a parse error    *)
(* naming the file and the line, which is not consumed.                    *)
C7_WholeLineOnly ==
    phase = "ready" =>
       /\ \A k \in 1..Len(yielded) : WholeLineShape(initLines[k])
       /\ cur.scanner.err.kind = "parse" =>
             /\ cur.scanner.lines # <<>>
             /\ cur.scanner.err.line = cur.scanner.lines[1]
             /\ cur.scanner.err.file = cur.scanner.filename

(* C8: after collectCounters has processed a well-formed fixture with at   *)
(* least one instruction line, the stats list holds iformStats records of  *)
(* that extension.                                                         *)
C8_StatsCollected ==
    status = "done" =>
       \A x \in 1..Len(extensions) :
          LET rd == ReadFile(fs, extensions[x] \o DotS) IN
          (rd.err = nil /\ WellFormedWithInstruction(AfterHeader(Split(rd.data, NL))))
             => \E y \in 1..Len(stats) : stats[y].ext = extensions[x]

(* C9: during and after collectCounters the stats list holds at most one   *)
(* record per (extension, instruction form) pair, also when an extension   *)
(* is requested twice, and records once appended are never modified or     *)
(* removed.                                                                *)
C9_OneRecordPerPair ==
    /\ [](\A x \in 1..Len(stats), y \in 1..Len(stats) :
             (stats[x].ext = stats[y].ext /\ stats[x].iform = stats[y].iform)
                => x = y)
    /\ [][/\ Len(stats') >= Len(stats)
          /\ SubSeq(stats', 1, Len(stats)) = stats]_vars

C9_Witness ==
    /\ status = "done"
    /\ extensions = <<<<"a">>, <<"a">>>>
    /\ fs[NameA] = File(FixtureWell)
    /\ ci = 3

(* C10: once scan has returned false every later call returns false and    *)
(* leaves the scanner unchanged; at the sentinel s.err stays nil, and an   *)
(* error once set is never cleared or replaced.                            *)
C10_FalseIsFinal ==
    /\ [][(/\ rets # <<>>
           /\ ~Last(rets)
           /\ Len(rets') > Len(rets))
             => /\ ~Last(rets')
                /\ cur'.scanner = cur.scanner]_vars
    /\ [][cur.scanner.err # NoErr => cur'.scanner.err = cur.scanner.err]_vars
    /\ []((cur.scanner.lines # <<>> /\ cur.scanner.lines[1] = RetLine)
             => cur.scanner.err = NoErr)

C10_Witness ==
    /\ phase = "ready"
    /\ Len(rets) >= 3
    /\ rets[1]
    /\ ~rets[Len(rets) - 1]
    /\ ~Last(rets)
    /\ cur.scanner.lines # <<>>
    /\ cur.scanner.lines[1] = RetLine
    /\ Len(cur.scanner.lines) > 1

====
